---------------------------- MODULE Spec2Model ----------------------------
(***************************************************************************)
(* A model of pivot_vtab.c, the SQLite pivot virtual table.                *)
(*                                                                         *)
(* Three groups of operations are modelled, each from its C function:      *)
(*   - pivotConnect / pivotCreate / pivotDisconnect (relation creation),   *)
(*   - pivotBestIndex (the planner),                                       *)
(*   - pivotOpen / pivotFilter / pivotEof / pivotNext / pivotColumn /      *)
(*     pivotRowid / pivotClose (the cursor).                               *)
(*                                                                         *)
(* The SQLite services the code calls (prepare, bind, step, reset,         *)
(* finalize, malloc, free, declare_vtab, get_table) are modelled by their  *)
(* documented contract at the call sites.                                  *)
(***************************************************************************)
EXTENDS Integers, Sequences, FiniteSets, TLC

VARIABLES
    phase,      \* "init" | "connected" | "failed" | "disconnected"
    request,    \* the arguments of the last CREATE VIRTUAL TABLE
    tab,        \* the pivot_vtab object
    connRc,     \* what pivotConnect returned
    pzErr,      \* *pzErr, the error message
    declared,   \* the columns sqlite3_declare_vtab registered
    allocs,     \* creation-time allocations not yet released
    idxInfo,    \* the sqlite3_index_info of the last pivotBestIndex call
    keyRows,    \* backing data: the rows the row-key query yields
    x,          \* backing data: the cell table of the pivot query
    cur,        \* the pivot_cursor objects
    heap,       \* cursor-time allocations (arrays, values, statements)
    host,       \* what the host engine saw from each cursor
    errBudget   \* step errors the environment may still inject

connVars == <<phase, request, tab, connRc, pzErr, declared, allocs>>
scanVars == <<keyRows, x, cur, heap, host, errBudget>>
vars == <<phase, request, tab, connRc, pzErr, declared, allocs, idxInfo,
          keyRows, x, cur, heap, host, errBudget>>

-----------------------------------------------------------------------------
(* Bounds of the model *)

MaxRowCols == 2     \* result columns of the row-key query
MaxColDefs == 3     \* rows of the column definition query
MaxParams == 3      \* bound parameters of the pivot query
MaxRows == 2        \* rows the row-key query yields
MaxFilters == 2     \* pivotFilter calls on one cursor
MaxErrors == 1      \* statement steps that end in an error
MaxConstraints == 2 \* constraints offered to pivotBestIndex
MaxOrderBy == 2     \* ordering terms offered to pivotBestIndex

-----------------------------------------------------------------------------
(* SQLite values and result codes *)

SQLITE_OK == "SQLITE_OK"
SQLITE_ERROR == "SQLITE_ERROR"
SQLITE_ROW == "SQLITE_ROW"
SQLITE_DONE == "SQLITE_DONE"

\* An sqlite3_value: a type tag and a payload.
Null == [t |-> "null", v |-> 0]
IntVal(n) == [t |-> "int", v |-> n]

Range(s) == {s[i] : i \in 1..Len(s)}

\* sqlite3_stricmp folds ASCII case before comparing.
Lower(s) ==
    CASE s = "A" -> "a"
      [] s = "B" -> "b"
      [] s = "C" -> "c"
      [] OTHER -> s

sqlite3_stricmp(s, t) == IF Lower(s) = Lower(t) THEN 0 ELSE 1

strcmp(s, t) == IF s = t THEN 0 ELSE 1

\* sqlite3_get_table returns every value as text.
Digits == <<"1", "2", "3", "4", "5">>
AsText(k) == Digits[k]

\* sqlite3_mprintf("\"%w\"", name): the name between double quotes (%w doubles
\* an embedded double quote; the names of the model hold none).
QuoteIdent(name) == "\"" \o name \o "\""


-----------------------------------------------------------------------------
(* Relation creation: pivotConnect, lines 253-409 *)

\* Names the model's queries can give their result columns.
KeyColNames == {"a", "c", "e"}
DefColNames == {"a", "b", "B"}
Identifiers == KeyColNames \cup DefColNames
DefKeys == {1, 2}

SeqsUpTo(S, lo, hi) == UNION {[1..n -> S] : n \in lo..hi}

\* The result columns of "SELECT * FROM (subquery)" have distinct names.
DistinctSeqsUpTo(S, lo, hi) ==
    {s \in SeqsUpTo(S, lo, hi) : \A i, j \in 1..Len(s) : i # j => s[i] # s[j]}

\* A CREATE VIRTUAL TABLE request: what the three argument queries are to SQLite.
\*   fail     the first sqlite3 call that fails ("none": all succeed)
\*   keyCols  the result column names of the row-key query, argv[3]
\*   nParams  sqlite3_bind_parameter_count of the pivot query, argv[5]
\*   colCount sqlite3_column_count of the column definition query, argv[4]
\*   colRows  the rows <<key, name>> the column definition query returns
Failures == {"none", "key_prepare", "pivot_prepare", "col_prepare", "get_table"}

\* Requests in which every sqlite3 call succeeds, and requests in which one
\* fails (those with at most one column definition row: the failing calls
\* come before the rows are read).
Requests ==
    [fail : {"none"},
     keyCols : DistinctSeqsUpTo(KeyColNames, 1, MaxRowCols),
     nParams : 0..MaxParams,
     colCount : {2},
     colRows : SeqsUpTo(DefKeys \X DefColNames, 0, MaxColDefs)]
    \cup
    {r \in [fail : Failures,
            keyCols : DistinctSeqsUpTo(KeyColNames, 1, MaxRowCols),
            nParams : 0..MaxParams,
            colCount : {2, 3},
            colRows : SeqsUpTo(DefKeys \X DefColNames, 0, 1)] :
        r.fail # "none" \/ r.colCount # 2}

\* One allocation of a creation attempt: a local or a field, and for the
\* elements of the two arrays, which element.
Obj(k, i) == [k |-> k, i |-> i]
Local(k) == Obj(k, 0)
ColStmts(n) == {Obj("col_stmt[i]", i) : i \in 1..n}
ColNames(n) == {Obj("key_sql_col_names[i]", i) : i \in 1..n}

\* PIVOT_VTAB_CONNECT_ERROR, lines 221-238: what the macro releases, given the
\* counts the object holds when it runs. Releasing a null pointer is a no-op.
PIVOT_VTAB_CONNECT_ERROR(live, nCol_key, nRow_cols) ==
    live \ ( { Local("stmt_key_query"), Local("stmt_pivot_query"),
               Local("stmt_col_query"), Local("sql"), Local("pivot_query_sql"),
               Local("key_sql_full_table_scan"), Local("zMsg"), Local("azData"),
               Local("create_vtab_sql"), Local("col_stmt"),
               Local("key_sql_col_names"), Local("tab") }
             \cup ColStmts(nCol_key) \cup ColNames(nRow_cols) )

\* The final return, lines 405-408: sqlite3_free(sql); return rc. Nothing else
\* is released, whatever rc is.
ReturnFromDeclare(live) == live \ {Local("sql")}

\* sqlite3_mprintf("SELECT * FROM \n%s", argv[k]): a text is a sequence of the
\* pieces appended to it.
WrapQuery(q) == <<"SELECT * FROM \n", q>>

\* Lines 307-312: the row-key part of the CREATE TABLE text.
RECURSIVE KeyColumnsText(_, _)
KeyColumnsText(names, i) ==
    IF i > Len(names) THEN <<>>
    ELSE (IF i > 1 THEN <<",">> ELSE <<>>)
         \o <<names[i]>> \o KeyColumnsText(names, i + 1)

\* Line 397 over the loop of line 390: one piece per column definition row.
RECURSIVE DefColumnsText(_, _)
DefColumnsText(rows, i) ==
    IF i > Len(rows) THEN <<>>
    ELSE <<"," \o QuoteIdent(rows[i][2])>> \o DefColumnsText(rows, i + 1)

\* sqlite3_get_table's result, line 361: nCol column names, then the rows,
\* all as text, in one array indexed from 0.
AzData(a, k) ==
    LET nCol == a.colCount
        r == k \div nCol
        c == k % nCol
    IN IF r = 0 THEN (IF c = 0 THEN "c_id" ELSE "name")
       ELSE IF c = 0 THEN AsText(a.colRows[r][1]) ELSE a.colRows[r][2]

\* The pairs (i, j) the loops of lines 369-370 visit.
DupLoopPairs(nRow) ==
    {p \in (1..nRow) \X (1..nRow) :
        /\ 1 <= p[1] /\ p[1] < nRow - 1
        /\ p[1] + 1 <= p[2] /\ p[2] < nRow}

DupKeyAt(a, p) ==
    strcmp(AzData(a, p[1] * a.colCount), AzData(a, p[2] * a.colCount)) = 0
DupNameAt(a, p) ==
    sqlite3_stricmp(AzData(a, p[1] * a.colCount + 1),
                    AzData(a, p[2] * a.colCount + 1)) = 0

\* Lines 368-381: the message of the first violation in loop order, or "".
DuplicateError(a) ==
    LET nRow == Len(a.colRows)
        bad == {p \in DupLoopPairs(nRow) : DupKeyAt(a, p) \/ DupNameAt(a, p)}
    IN IF nRow > 1 /\ bad # {}
       THEN LET p == CHOOSE q \in bad : \A r \in bad :
                        q[1] < r[1] \/ (q[1] = r[1] /\ q[2] <= r[2])
            IN IF DupKeyAt(a, p)
               THEN "Pivot table column keys must be unique. Duplicate column key \""
                    \o AzData(a, p[1] * a.colCount) \o "\"."
               ELSE "Pivot table column names must be unique. Duplicate column \""
                    \o AzData(a, p[1] * a.colCount + 1) \o "\"."
       ELSE ""

BadParamCount_OffByOne(nRow_key, nRow_cols) == nRow_key > nRow_cols + 1

\* Lines 332-336: the bound parameter count check.
BadParamCount(nRow_key, nRow_cols) == nRow_key > nRow_cols

\* sqlite3_bind_value: an index outside 1..N is SQLITE_RANGE and binds nothing.
sqlite3_bind_value(stmt, idx, v) ==
    IF idx \in 1..Len(stmt.params)
    THEN [stmt EXCEPT !.params[idx] = v]
    ELSE stmt

\* sqlite3_prepare_v2 of the pivot query: every parameter unbound (NULL), the
\* statement not being stepped.
PreparePivot(nParams) ==
    [params |-> [i \in 1..nParams |-> Null], busy |-> FALSE]

\* Lines 395-396: the binding of column definition row j.
ColStmt(a, nRow_key, j) ==
    sqlite3_bind_value(PreparePivot(a.nParams), nRow_key + 1,
                       IntVal(a.colRows[j][1]))

\* Lines 389-398: tab->col_stmt after the loop over the column definition rows.
ColStmtArray(a, nRow_key) ==
    [j \in 1..Len(a.colRows) |-> ColStmt(a, nRow_key, j)]

\* The CREATE TABLE text handed to sqlite3_declare_vtab, lines 285-403.
CreateVtabSql(a) ==
    <<"CREATE TABLE x(">>
    \o KeyColumnsText([i \in 1..Len(a.keyCols) |-> QuoteIdent(a.keyCols[i])], 1)
    \o DefColumnsText(a.colRows, 1)
    \o <<")">>

\* sqlite3_declare_vtab reads the column list back from the text ...
ColumnOfPiece(p) ==
    {n \in Identifiers : p = QuoteIdent(n) \/ p = "," \o QuoteIdent(n)}

RECURSIVE ParseColumns(_, _)
ParseColumns(text, i) ==
    IF i > Len(text) THEN <<>>
    ELSE (IF ColumnOfPiece(text[i]) = {} THEN <<>>
          ELSE <<CHOOSE n \in ColumnOfPiece(text[i]) : TRUE>>)
         \o ParseColumns(text, i + 1)

\* ... and refuses a table with two columns of the same name (case folded).
sqlite3_declare_vtab(text) ==
    LET cols == ParseColumns(text, 1)
    IN IF \E i, j \in 1..Len(cols) : i < j /\ Lower(cols[i]) = Lower(cols[j])
       THEN SQLITE_ERROR ELSE SQLITE_OK

NoTab ==
    [nRow_key |-> 0, nRow_cols |-> 0, nCol_key |-> 0, col_stmt |-> <<>>,
     key_sql_full_table_scan |-> <<>>, key_sql_col_names |-> <<>>]

Outcome(rc, msg, live, t, cols) ==
    [rc |-> rc, msg |-> msg, allocs |-> live, tab |-> t, declared |-> cols]

\* An error return through the macro: the relation object is gone.
ErrorReturn(msg, live, nCol_key, nRow_cols) ==
    Outcome(SQLITE_ERROR, msg,
            PIVOT_VTAB_CONNECT_ERROR(live, nCol_key, nRow_cols), NoTab, <<>>)

\* pivotConnect, lines 253-409, as a function of the request.
ConnectOutcome(a) ==
    LET nRow_cols == Len(a.keyCols)
        nRow_key == a.nParams - 1
        names == [i \in 1..nRow_cols |-> QuoteIdent(a.keyCols[i])]
        \* live allocations at each point of the function
        live1 == {Local("tab"), Local("create_vtab_sql"),
                  Local("key_sql_full_table_scan")}
        live2 == live1 \cup {Local("key_sql_col_names")} \cup ColNames(nRow_cols)
        live3 == live2 \cup {Local("pivot_query_sql")}
        live4 == live3 \cup {Local("sql")}
        live5 == (live3 \cup {Local("col_stmt") : j \in 1..Len(a.colRows)}
                        \cup ColStmts(Len(a.colRows)))
                 \ {Local("pivot_query_sql"), Local("create_vtab_sql")}
        t == [nRow_key |-> nRow_key, nRow_cols |-> nRow_cols,
              nCol_key |-> Len(a.colRows),
              col_stmt |-> ColStmtArray(a, nRow_key),
              key_sql_full_table_scan |-> WrapQuery("(row key query)"),
              key_sql_col_names |-> names]
        text == CreateVtabSql(a)
        rc == sqlite3_declare_vtab(text)
    IN IF a.fail = "key_prepare"
       THEN ErrorReturn("Pivot table key query prepare error", live1, 0, 0)
       ELSE IF a.fail = "pivot_prepare"
       THEN ErrorReturn("Pivot query prepare error", live3, 0, nRow_cols)
       ELSE IF BadParamCount(nRow_key, nRow_cols)
       THEN ErrorReturn("Pivot table key query error - Unexpected number of bound parameters.",
                        live3 \cup {Local("stmt_pivot_query")}, 0, nRow_cols)
       ELSE IF a.fail = "col_prepare"
       THEN ErrorReturn("Pivot table column definition query prepare error",
                        live4, 0, nRow_cols)
       ELSE IF a.colCount # 2
       THEN ErrorReturn("Pivot table column definition query expects 2 result column.",
                        live4 \cup {Local("stmt_col_query")}, 0, nRow_cols)
       ELSE IF a.fail = "get_table"
       THEN ErrorReturn("get_table error",
                        live4 \cup {Local("stmt_col_query"), Local("zMsg")},
                        0, nRow_cols)
       ELSE IF DuplicateError(a) # ""
       THEN ErrorReturn(DuplicateError(a),
                        live4 \cup {Local("stmt_col_query"), Local("azData")},
                        0, nRow_cols)
       ELSE Outcome(rc, "", ReturnFromDeclare(live5 \cup {Local("sql")}), t,
                    IF rc = SQLITE_OK THEN ParseColumns(text, 1) ELSE <<>>)

\* xCreate and xConnect, lines 415-423.
pivotConnect(a) ==
    /\ phase = "init"
    /\ LET o == ConnectOutcome(a)
       IN /\ request' = a
          /\ connRc' = o.rc
          /\ pzErr' = o.msg
          /\ allocs' = o.allocs
          /\ tab' = o.tab
          /\ declared' = o.declared
          /\ phase' = IF o.rc = SQLITE_OK THEN "connected" ELSE "failed"
    /\ UNCHANGED <<idxInfo, keyRows, x, cur, heap, host, errBudget>>

pivotCreate(a) == pivotConnect(a)

\* pivotDisconnect, lines 438-454.
pivotDisconnect ==
    /\ phase = "connected"
    /\ allocs' = allocs \ ( ColStmts(tab.nCol_key) \cup {Local("col_stmt")}
                            \cup ColNames(tab.nRow_cols)
                            \cup {Local("key_sql_col_names"),
                                  Local("key_sql_full_table_scan"), Local("tab")} )
    /\ tab' = NoTab
    /\ phase' = "disconnected"
    /\ UNCHANGED <<request, connRc, pzErr, declared, idxInfo,
                   keyRows, x, cur, heap, host, errBudget>>


-----------------------------------------------------------------------------
(* The planner: pivotBestIndex, lines 618-717 *)

\* sqlite3_index_constraint.op, by the name of its SQLITE_INDEX_CONSTRAINT_
\* constant.
ConstraintOps ==
    {"EQ", "GT", "LE", "LT", "GE", "MATCH", "LIKE", "GLOB", "REGEXP", "NE",
     "ISNOT", "ISNOTNULL", "ISNULL", "IS", "LIMIT", "OFFSET", "FUNCTION"}

OpText_FunctionAsEquals(op) ==
    IF op \in {"EQ", "FUNCTION"} THEN "=" ELSE ""

\* The switch of lines 638-682: the SQL operator, or "" for op = 0.
OpText(op) ==
    CASE op = "EQ" -> "="
      [] op = "LT" -> "<"
      [] op = "LE" -> "<="
      [] op = "GT" -> ">"
      [] op = "GE" -> ">="
      [] op = "MATCH" -> "MATCH"
      [] op = "LIKE" -> "LIKE"
      [] op = "GLOB" -> "GLOB"
      [] op = "REGEXP" -> "REGEXP"
      [] op = "NE" -> "<>"
      [] op \in {"ISNOT", "ISNOTNULL"} -> "IS NOT"
      [] op \in {"ISNULL", "IS"} -> "IS"
      [] OTHER -> ""

\* Lines 637 and 699: the test that lets a constraint or an ordering term through.
Eligible(iColumn, nRow_cols) == iColumn < nRow_cols

\* tab->key_sql_col_names[iColumn], lines 690 and 705. The array has nRow_cols
\* elements; a read outside it is undefined: the build either faults or goes on
\* with whatever the memory holds.
InBounds(t, iColumn) == iColumn \in 0..(t.nRow_cols - 1)

ReadColName(t, iColumn, ub) ==
    IF InBounds(t, iColumn)
    THEN [fault |-> FALSE, name |-> t.key_sql_col_names[iColumn + 1]]
    ELSE [fault |-> ub = "fault", name |-> "<out of bounds>"]

\* sqlite3_str_appendf(.., "%s %s ?", name, op), line 690.
ClauseText(name, op) == name \o " " \o op \o " ?"

\* sqlite3_str_appendf(.., "%s %s", name, desc ? "DESC" : ""), line 705.
OrderTermText(name, desc) == name \o " " \o (IF desc # 0 THEN "DESC" ELSE "")

NoUsage == [argvIndex |-> 0, omit |-> 0]

\* The loop of lines 635-694 from constraint i on; st is the state of the
\* locals and outputs: the text, aConstraintUsage, argvIndex.
RECURSIVE ConstraintLoop(_, _, _, _, _)
ConstraintLoop(t, cons, i, st, ub) ==
    IF i > Len(cons) \/ st.fault THEN st
    ELSE LET c == cons[i]
             op == OpText(c.op)
             col == ReadColName(t, c.iColumn, ub)
             next ==
                 IF c.usable = 0 THEN st
                 ELSE IF ~Eligible(c.iColumn, t.nRow_cols) THEN st
                 ELSE IF op = ""
                 THEN [st EXCEPT !.usage[i].omit = 0]
                 ELSE IF col.fault THEN [st EXCEPT !.fault = TRUE]
                 ELSE [st EXCEPT
                         !.text = st.text
                                  \o <<IF st.argvIndex = 1 THEN "\n WHERE "
                                       ELSE " AND ">>
                                  \o <<ClauseText(col.name, op)>>,
                         !.usage[i] = [argvIndex |-> st.argvIndex, omit |-> 1],
                         !.argvIndex = st.argvIndex + 1]
         IN ConstraintLoop(t, cons, i + 1, next, ub)

\* The loop of lines 698-708 from ordering term i on.
RECURSIVE OrderByLoop(_, _, _, _, _)
OrderByLoop(t, ord, i, st, ub) ==
    IF i > Len(ord) \/ st.fault THEN st
    ELSE LET o == ord[i]
             col == ReadColName(t, o.iColumn, ub)
             next ==
                 IF ~Eligible(o.iColumn, t.nRow_cols) THEN st
                 ELSE IF col.fault THEN [st EXCEPT !.fault = TRUE]
                 ELSE [st EXCEPT
                         !.text = st.text
                                  \o <<IF st.orderIdx = 0 THEN "\n ORDER BY "
                                       ELSE ", ">>
                                  \o <<OrderTermText(col.name, o.desc)>>,
                         !.orderByConsumed = 1,
                         !.orderIdx = st.orderIdx + 1]
         IN OrderByLoop(t, ord, i + 1, next, ub)

\* pivotBestIndex as a function of the relation and of what the host offers.
\* SQLite hands in aConstraintUsage and orderByConsumed zeroed.
BestIndexOutcome(t, cons, ord, ub) ==
    LET st0 == [text |-> t.key_sql_full_table_scan,
                usage |-> [i \in 1..Len(cons) |-> NoUsage],
                argvIndex |-> 1, orderIdx |-> 0, orderByConsumed |-> 0,
                fault |-> FALSE]
        st1 == ConstraintLoop(t, cons, 1, st0, ub)
        st2 == OrderByLoop(t, ord, 1, st1, ub)
    IN [aConstraint |-> cons,
        aOrderBy |-> ord,
        aConstraintUsage |-> st2.usage,
        orderByConsumed |-> st2.orderByConsumed,
        idxStr |-> IF st2.fault THEN <<>> ELSE st2.text,
        idxNum |-> 0,
        estimatedCost |-> <<2147483647, st2.argvIndex>>,
        estimatedRows |-> 10,
        needToFreeIdxStr |-> 1,
        crashed |-> st2.fault]

\* Whether the call reads key_sql_col_names out of bounds.
ReadsOutOfBounds(t, cons, ord) ==
    \/ \E i \in 1..Len(cons) :
          /\ cons[i].usable # 0
          /\ Eligible(cons[i].iColumn, t.nRow_cols)
          /\ OpText(cons[i].op) # ""
          /\ ~InBounds(t, cons[i].iColumn)
    \/ \E i \in 1..Len(ord) :
          /\ Eligible(ord[i].iColumn, t.nRow_cols)
          /\ ~InBounds(t, ord[i].iColumn)

UbOutcomes(t, cons, ord) ==
    IF ReadsOutOfBounds(t, cons, ord) THEN {"fault", "garbage"} ELSE {"garbage"}

pivotBestIndex(cons, ord) ==
    /\ phase = "connected"
    /\ ~idxInfo.crashed
    /\ \E ub \in UbOutcomes(tab, cons, ord) :
          idxInfo' = BestIndexOutcome(tab, cons, ord, ub)
    /\ UNCHANGED <<connVars, scanVars>>

-----------------------------------------------------------------------------
(* What SQLite does with the queries the cursor runs *)

\* The pieces of a derived row-key query after the full-scan text.
OrderByAt(t, text) ==
    IF \E k \in 1..Len(text) : text[k] = "\n ORDER BY "
    THEN CHOOSE k \in 1..Len(text) : text[k] = "\n ORDER BY "
    ELSE Len(text) + 1

WherePieces(t, text) ==
    SelectSeq(SubSeq(text, Len(t.key_sql_full_table_scan) + 1,
                     OrderByAt(t, text) - 1),
              LAMBDA p : p \notin {"\n WHERE ", " AND "})

OrderPieces(t, text) ==
    SelectSeq(SubSeq(text, OrderByAt(t, text) + 1, Len(text)),
              LAMBDA p : p # ", ")

SqlOps == {"=", "<", "<=", ">", ">=", "<>", "IS", "IS NOT",
           "MATCH", "LIKE", "GLOB", "REGEXP"}

\* The (column, operator) a WHERE piece names, read back from its text; none
\* when the piece names no column of the row-key query.
ClauseOf(t, piece) ==
    {co \in (1..t.nRow_cols) \X SqlOps :
        piece = ClauseText(t.key_sql_col_names[co[1]], co[2])}

TermOf(t, piece) ==
    {cd \in (1..t.nRow_cols) \X {0, 1} :
        piece = OrderTermText(t.key_sql_col_names[cd[1]], cd[2])}

\* sqlite3_prepare_v2 fails on a column that does not exist and on the
\* operators MATCH and REGEXP, which no built-in function implements.
PrepareOk(t, text) ==
    /\ text # <<>>
    /\ \A i \in 1..Len(WherePieces(t, text)) :
          \E co \in ClauseOf(t, WherePieces(t, text)[i]) :
              co[2] \notin {"MATCH", "REGEXP"}
    /\ \A i \in 1..Len(OrderPieces(t, text)) :
          TermOf(t, OrderPieces(t, text)[i]) # {}

\* SQL comparison of a column value with a bound value.
SqlHolds(op, v, w) ==
    CASE op \in {"IS"} -> v = w
      [] op \in {"IS NOT"} -> v # w
      [] v = Null \/ w = Null -> FALSE
      [] op \in {"=", "LIKE", "GLOB"} -> v.v = w.v
      [] op = "<>" -> v.v # w.v
      [] op = "<" -> v.v < w.v
      [] op = "<=" -> v.v <= w.v
      [] op = ">" -> v.v > w.v
      [] op = ">=" -> v.v >= w.v
      [] OTHER -> FALSE

\* A bound value, or NULL for a parameter left unbound.
Bound(argv, i) == IF i \in 1..Len(argv) THEN argv[i] ELSE Null

RowPasses(t, text, argv, row) ==
    \A i \in 1..Len(WherePieces(t, text)) :
        LET co == CHOOSE c \in ClauseOf(t, WherePieces(t, text)[i]) : TRUE
        IN SqlHolds(co[2], row[co[1]], Bound(argv, i))

\* Ordering of two values: NULL first, then by number.
ValueLess(v, w) ==
    IF v = Null THEN w # Null
    ELSE w # Null /\ v.v < w.v

\* Whether row r sorts strictly before row q under the ordering terms from i on.
RECURSIVE RowBefore(_, _, _, _)
RowBefore(terms, i, r, q) ==
    IF i > Len(terms) THEN FALSE
    ELSE LET col == terms[i][1]
             desc == terms[i][2] = 1
         IN IF r[col] = q[col] THEN RowBefore(terms, i + 1, r, q)
            ELSE IF desc THEN ValueLess(q[col], r[col])
            ELSE ValueLess(r[col], q[col])

\* Stable insertion of a row into a sorted sequence.
RECURSIVE InsertRow(_, _, _)
InsertRow(terms, sorted, r) ==
    IF sorted = <<>> THEN <<r>>
    ELSE IF RowBefore(terms, 1, r, Head(sorted))
    THEN <<r>> \o sorted
    ELSE <<Head(sorted)>> \o InsertRow(terms, Tail(sorted), r)

RECURSIVE SortRows(_, _)
SortRows(terms, rows) ==
    IF rows = <<>> THEN <<>>
    ELSE InsertRow(terms, SortRows(terms, SubSeq(rows, 1, Len(rows) - 1)),
                   rows[Len(rows)])

\* The rows a prepared derived query yields over the backing rows.
EvalQuery(t, text, argv, backing) ==
    LET terms == [i \in 1..Len(OrderPieces(t, text)) |->
                     CHOOSE cd \in TermOf(t, OrderPieces(t, text)[i]) : TRUE]
        kept == SelectSeq(backing, LAMBDA r : RowPasses(t, text, argv, r))
    IN IF terms = <<>> THEN kept ELSE SortRows(terms, kept)

\* The pivot query over the cell table: the rows of x whose keys equal the bound
\* parameters. A NULL parameter equals nothing.
CellRows(cells, params) ==
    IF (\E i \in 1..Len(params) : params[i] = Null) \/ params \notin DOMAIN cells
    THEN <<>>
    ELSE cells[params]

-----------------------------------------------------------------------------
(* The cursor: lines 459-610 *)

Cursors == {1, 2}

\* Heap objects of the cursors: the pivot_key array, the sqlite3_value copies
\* it points to, the row-key statement. Pointers are positions in heap; 0 is
\* the null pointer. A released object stays in place, not live.
ArrayObj(c, n) ==
    [kind |-> "array", live |-> TRUE, frees |-> 0, owner |-> c, val |-> Null,
     elems |-> [i \in 1..n |-> 0], rows |-> <<>>, pos |-> 0]
ValueObj(c, v) ==
    [kind |-> "value", live |-> TRUE, frees |-> 0, owner |-> c, val |-> v,
     elems |-> <<>>, rows |-> <<>>, pos |-> 0]
StmtObj(c, rows) ==
    [kind |-> "stmt", live |-> TRUE, frees |-> 0, owner |-> c, val |-> Null,
     elems |-> <<>>, rows |-> rows, pos |-> 0]

\* A slot of the heap that holds nothing and that no pointer refers to.
Vacant ==
    [kind |-> "vacant", live |-> FALSE, frees |-> 0, owner |-> 0, val |-> Null,
     elems |-> <<>>, rows |-> <<>>, pos |-> 0]

\* sqlite3_malloc, sqlite3_value_dup, sqlite3_prepare_v2: the new object takes
\* the first vacant slot.
NewPtr(h) ==
    IF \E p \in 1..Len(h) : h[p] = Vacant
    THEN CHOOSE p \in 1..Len(h) : h[p] = Vacant /\ \A q \in 1..(p - 1) : h[q] # Vacant
    ELSE Len(h) + 1

Alloc(h, obj) ==
    IF NewPtr(h) > Len(h) THEN Append(h, obj) ELSE [h EXCEPT ![NewPtr(h)] = obj]

\* Released objects that no cursor field and no array element points to any
\* more cannot be reached by the program: their slots become vacant.
Referenced(h, cs) ==
    LET roots == {cs[c].pivot_key : c \in DOMAIN cs} \cup {cs[c].stmt : c \in DOMAIN cs}
        inner == UNION {Range(h[p].elems) :
                          p \in {q \in 1..Len(h) : q \in roots \/ h[q].live}}
    IN (roots \cup inner) \ {0}

RECURSIVE Trim(_)
Trim(h) ==
    IF h # <<>> /\ h[Len(h)] = Vacant THEN Trim(SubSeq(h, 1, Len(h) - 1)) ELSE h

Collect(h, cs) ==
    Trim([p \in 1..Len(h) |->
             IF h[p].live \/ p \in Referenced(h, cs) THEN h[p] ELSE Vacant])

\* sqlite3_free, sqlite3_value_free, sqlite3_finalize: a null pointer is a
\* no-op; the count of releases tells a second release of the same object.
Release(h, p) ==
    IF p = 0 THEN h
    ELSE [h EXCEPT ![p].live = FALSE,
                   ![p].frees = IF @ < 2 THEN @ + 1 ELSE @]

RECURSIVE ReleaseAll(_, _, _)
ReleaseAll(h, ptrs, i) ==
    IF i > Len(ptrs) THEN h
    ELSE ReleaseAll(Release(h, ptrs[i]), ptrs, i + 1)

NullRow(n) == [i \in 1..n |-> Null]

\* sqlite3_step of the row-key statement. A null statement is SQLITE_MISUSE.
\* After an error or SQLITE_DONE the next step starts the query again. With no
\* current row sqlite3_column_value gives NULL.
sqlite3_step(h, stmt, n, err) ==
    IF stmt = 0
    THEN [rc |-> "SQLITE_MISUSE", heap |-> h, row |-> NullRow(n)]
    ELSE IF err
    THEN [rc |-> SQLITE_ERROR, heap |-> [h EXCEPT ![stmt].pos = 0],
          row |-> NullRow(n)]
    ELSE IF h[stmt].pos < Len(h[stmt].rows)
    THEN [rc |-> SQLITE_ROW, heap |-> [h EXCEPT ![stmt].pos = @ + 1],
          row |-> h[stmt].rows[h[stmt].pos + 1]]
    ELSE [rc |-> SQLITE_DONE, heap |-> [h EXCEPT ![stmt].pos = 0],
          row |-> NullRow(n)]

\* Lines 504-505 and 604-605: pivot_key[i] = sqlite3_value_dup(column i).
RECURSIVE DupRowFrom(_, _, _, _, _)
DupRowFrom(h, c, pk, row, i) ==
    IF i > Len(row) THEN h
    ELSE DupRowFrom([Alloc(h, ValueObj(c, row[i])) EXCEPT ![pk].elems[i] = NewPtr(h)],
                    c, pk, row, i + 1)

DupRow(h, c, pk, row) == DupRowFrom(h, c, pk, row, 1)

\* The values the cursor's tuple holds.
Tuple(h, pk) == [i \in 1..Len(h[pk].elems) |->
                    IF h[pk].elems[i] = 0 THEN Null ELSE h[h[pk].elems[i]].val]

NoCursor == [iRowid |-> 0, stmt |-> 0, rc |-> "0", pivot_key |-> 0]

NoCol == [i |-> -1, val |-> Null, stepErr |-> FALSE]

NoHost ==
    [pc |-> "unopened", ret |-> SQLITE_OK, produced |-> <<>>,
     stepErr |-> FALSE, scanErr |-> FALSE, col |-> NoCol, rowid |-> 0,
     idxStr |-> <<>>, argv |-> <<>>, scanRows |-> <<>>, filters |-> 0,
     ub |-> {}]

Running == \A c \in Cursors : host[c].pc # "crashed"

\* pivotOpen, lines 459-466.
pivotOpen(c) ==
    /\ phase = "connected" /\ Running
    /\ host[c].pc = "unopened"
    /\ cur' = [cur EXCEPT ![c] = NoCursor]
    /\ host' = [host EXCEPT ![c].pc = "open", ![c].ret = SQLITE_OK]
    /\ UNCHANGED <<connVars, idxInfo, keyRows, x, heap, errBudget>>

\* Values offered by the host for the plan's consumed constraints.
ArgCount(info) ==
    Cardinality({i \in 1..Len(info.aConstraintUsage) :
                    info.aConstraintUsage[i].argvIndex > 0})

\* pivotFilter, lines 582-610. err: the first step of the row-key statement
\* ends in an error.
pivotFilter(c, argv, err) ==
    /\ phase = "connected" /\ Running
    /\ host[c].pc \in {"open", "row", "eof"}
    /\ idxInfo.idxStr # <<>> /\ ~idxInfo.crashed
    /\ Len(argv) = ArgCount(idxInfo)
    /\ host[c].filters < MaxFilters
    /\ err => (errBudget > 0 /\ PrepareOk(tab, idxInfo.idxStr))
    /\ LET n == tab.nRow_cols
           pk == NewPtr(heap)
           h1 == Alloc(heap, ArrayObj(c, n))
           ok == PrepareOk(tab, idxInfo.idxStr)
           rows == IF ok THEN EvalQuery(tab, idxInfo.idxStr, argv, keyRows)
                   ELSE <<>>
           stmt == IF ok THEN NewPtr(h1) ELSE 0
           h2 == IF ok THEN Alloc(h1, StmtObj(c, rows)) ELSE h1
           r == sqlite3_step(h2, stmt, n, err)
           after == [cur EXCEPT ![c] =
                        [iRowid |-> 1, stmt |-> stmt, rc |-> r.rc,
                         pivot_key |-> IF r.rc = SQLITE_DONE THEN 0 ELSE pk]]
       IN /\ heap' = Collect(IF r.rc = SQLITE_DONE THEN r.heap
                             ELSE DupRow(r.heap, c, pk, r.row), after)
          /\ cur' = after
          /\ host' = [host EXCEPT ![c] =
                        [@ EXCEPT !.pc = "filtered", !.ret = SQLITE_OK,
                                  !.produced = <<>>,
                                  !.stepErr = r.rc \notin {SQLITE_ROW, SQLITE_DONE},
                                  !.scanErr = r.rc \notin {SQLITE_ROW, SQLITE_DONE},
                                  !.col = NoCol, !.idxStr = idxInfo.idxStr,
                                  !.argv = argv, !.scanRows = rows,
                                  !.rowid = 0, !.filters = @ + 1]]
          /\ errBudget' = IF err THEN errBudget - 1 ELSE errBudget
    /\ UNCHANGED <<connVars, idxInfo, keyRows, x>>

\* Whether pivotEof or pivotClose would read and release an array that was
\* released before: undefined behaviour.
DanglingKey(c) == cur[c].pivot_key # 0 /\ ~heap[cur[c].pivot_key].live

UbOutcomesOf(dangling) == IF dangling THEN {"fault", "garbage"} ELSE {"garbage"}

\* Lines 476-480 and 564-568: release the values, then the array.
ReleaseKey(h, pk) ==
    IF pk = 0 THEN h ELSE Release(ReleaseAll(h, h[pk].elems, 1), pk)

\* pivotEof, lines 558-574.
pivotEof(c) ==
    /\ phase = "connected" /\ Running
    /\ host[c].pc \in {"filtered", "eof"}
    /\ \E ub \in UbOutcomesOf(cur[c].rc = SQLITE_DONE /\ DanglingKey(c)) :
        IF cur[c].rc = SQLITE_DONE
        THEN IF DanglingKey(c) /\ ub = "fault"
             THEN /\ host' = [host EXCEPT ![c].pc = "crashed",
                                 ![c].ub = @ \cup {"use_after_free"}]
                  /\ UNCHANGED <<cur, heap>>
             ELSE /\ heap' = Collect(Release(ReleaseKey(heap, cur[c].pivot_key),
                                             cur[c].stmt),
                                     [cur EXCEPT ![c].stmt = 0])
                  /\ cur' = [cur EXCEPT ![c].stmt = 0]
                  /\ host' = [host EXCEPT ![c].pc = "eof", ![c].ret = "1",
                                 ![c].ub = IF DanglingKey(c)
                                           THEN @ \cup {"use_after_free",
                                                        "double_free"}
                                           ELSE @]
        ELSE /\ host' = [host EXCEPT ![c].pc = "row", ![c].ret = "0",
                            ![c].produced =
                                IF host[c].pc = "filtered"
                                THEN Append(@, Tuple(heap, cur[c].pivot_key))
                                ELSE @]
             /\ UNCHANGED <<cur, heap>>
    /\ UNCHANGED <<connVars, idxInfo, keyRows, x, errBudget>>

\* Lines 496-499: release the values and clear the array.
ClearKey(h, pk) ==
    IF pk = 0 THEN h
    ELSE [ReleaseAll(h, h[pk].elems, 1) EXCEPT
             ![pk].elems = [i \in 1..Len(h[pk].elems) |-> 0]]

\* pivotNext, lines 490-510. err: the step ends in an error.
pivotNext(c, err) ==
    /\ phase = "connected" /\ Running
    /\ host[c].pc = "row"
    /\ err => (errBudget > 0 /\ cur[c].stmt # 0)
    /\ LET n == tab.nRow_cols
           pk == cur[c].pivot_key
           r == sqlite3_step(ClearKey(heap, pk), cur[c].stmt, n, err)
       IN /\ heap' = Collect(IF r.rc # SQLITE_DONE
                             THEN DupRow(Collect(r.heap, cur), c, pk, r.row)
                             ELSE r.heap, cur)
          /\ cur' = [cur EXCEPT ![c].rc = r.rc, ![c].iRowid = @ + 1]
          /\ host' = [host EXCEPT ![c] =
                        [@ EXCEPT !.pc = "filtered", !.ret = SQLITE_OK,
                                  !.stepErr = r.rc \notin {SQLITE_ROW, SQLITE_DONE},
                                  !.scanErr = @ \/ r.rc \notin {SQLITE_ROW, SQLITE_DONE},
                                  !.col = NoCol, !.rowid = 0]]
          /\ errBudget' = IF err THEN errBudget - 1 ELSE errBudget
    /\ UNCHANGED <<connVars, idxInfo, keyRows, x>>

RECURSIVE BindKeys_EveryRowColumn(_, _, _, _)
BindKeys_EveryRowColumn(stmt, tuple, k, nRow_key) ==
    IF k >= Len(tuple) THEN stmt
    ELSE BindKeys_EveryRowColumn(sqlite3_bind_value(stmt, k + 1, tuple[k + 1]),
                                 tuple, k + 1, nRow_key)

\* Lines 531-532: bind the first nRow_key values of the tuple, from slot k on.
RECURSIVE BindKeys(_, _, _, _)
BindKeys(stmt, tuple, k, nRow_key) ==
    IF k >= nRow_key THEN stmt
    ELSE BindKeys(sqlite3_bind_value(stmt, k + 1, tuple[k + 1]), tuple, k + 1,
                  nRow_key)

\* Line 534: sqlite3_step leaves the pivot statement in the middle of its run.
StepPivot(stmt) == [stmt EXCEPT !.busy = TRUE]

\* Line 539: sqlite3_reset puts the statement back to its start; the bindings
\* stay.
sqlite3_reset(stmt) == [stmt EXCEPT !.busy = FALSE]

\* Lines 534-538: the step of the pivot statement and the value it gives.
CellResult(cells, stmt, err) ==
    IF ~err /\ CellRows(cells, stmt.params) # <<>>
    THEN CellRows(cells, stmt.params)[1]
    ELSE Null

\* pivotColumn, lines 516-543. err: the step of the pivot statement ends in an
\* error.
pivotColumn(c, i, err) ==
    /\ phase = "connected" /\ Running
    /\ host[c].pc = "row"
    /\ i \in 0..(tab.nRow_cols + tab.nCol_key - 1)
    /\ err => (errBudget > 0 /\ i >= tab.nRow_cols)
    /\ IF i < tab.nRow_cols
       THEN /\ host' = [host EXCEPT ![c].ret = SQLITE_OK, ![c].rowid = 0,
                           ![c].col = [i |-> i,
                                       val |-> Tuple(heap, cur[c].pivot_key)[i + 1],
                                       stepErr |-> FALSE]]
            /\ tab' = tab
       ELSE LET j == i - tab.nRow_cols + 1
                stmt == BindKeys(tab.col_stmt[j], Tuple(heap, cur[c].pivot_key),
                                 0, tab.nRow_key)
            IN /\ host' = [host EXCEPT ![c].ret = SQLITE_OK, ![c].rowid = 0,
                              ![c].col = [i |-> i,
                                          val |-> CellResult(x, stmt, err),
                                          stepErr |-> err]]
               /\ tab' = [tab EXCEPT !.col_stmt[j] = sqlite3_reset(StepPivot(stmt))]
    /\ errBudget' = IF err THEN errBudget - 1 ELSE errBudget
    /\ UNCHANGED <<phase, request, connRc, pzErr, declared, allocs, idxInfo,
                   keyRows, x, cur, heap>>

pivotRowid_CountsFromZero(c) ==
    /\ phase = "connected" /\ Running
    /\ host[c].pc = "row"
    /\ host' = [host EXCEPT ![c].ret = SQLITE_OK, ![c].col = NoCol,
                       ![c].rowid = cur[c].iRowid - 1]
    /\ UNCHANGED <<connVars, idxInfo, keyRows, x, cur, heap, errBudget>>

\* pivotRowid, lines 548-552.
pivotRowid(c) ==
    /\ phase = "connected" /\ Running
    /\ host[c].pc = "row"
    /\ host' = [host EXCEPT ![c].ret = SQLITE_OK, ![c].col = NoCol,
                       ![c].rowid = cur[c].iRowid]
    /\ UNCHANGED <<connVars, idxInfo, keyRows, x, cur, heap, errBudget>>

\* pivotClose, lines 471-485.
pivotClose(c) ==
    /\ phase = "connected" /\ Running
    /\ host[c].pc \in {"open", "row", "eof"}
    /\ \E ub \in UbOutcomesOf(DanglingKey(c)) :
        IF DanglingKey(c) /\ ub = "fault"
        THEN /\ host' = [host EXCEPT ![c].pc = "crashed",
                            ![c].ub = @ \cup {"use_after_free"}]
             /\ UNCHANGED <<cur, heap>>
        ELSE /\ heap' = Collect(Release(ReleaseKey(heap, cur[c].pivot_key),
                                        cur[c].stmt),
                                [cur EXCEPT ![c] = NoCursor])
             /\ cur' = [cur EXCEPT ![c] = NoCursor]
             /\ host' = [host EXCEPT ![c].pc = "closed", ![c].ret = SQLITE_OK,
                            ![c].col = NoCol, ![c].rowid = 0,
                            ![c].ub = IF DanglingKey(c)
                                      THEN @ \cup {"use_after_free", "double_free"}
                                      ELSE @]
    /\ UNCHANGED <<connVars, idxInfo, keyRows, x, errBudget>>

\* pivotRename, lines 428-433.
pivotRename ==
    /\ phase = "connected" /\ Running
    /\ UNCHANGED vars

-----------------------------------------------------------------------------
(* The creation specification: one CREATE VIRTUAL TABLE, then a DROP. *)

NoRequest ==
    [fail |-> "none", keyCols |-> <<>>, nParams |-> 0, colCount |-> 0,
     colRows |-> <<>>]

NoIdxInfo ==
    [aConstraint |-> <<>>, aOrderBy |-> <<>>, aConstraintUsage |-> <<>>,
     orderByConsumed |-> 0, idxStr |-> <<>>, idxNum |-> 0,
     estimatedCost |-> <<0, 1>>, estimatedRows |-> 0, needToFreeIdxStr |-> 0,
     crashed |-> FALSE]

InitConnect ==
    /\ phase = "init"
    /\ request = NoRequest
    /\ tab = NoTab
    /\ connRc = SQLITE_OK
    /\ pzErr = ""
    /\ declared = <<>>
    /\ allocs = {}
    /\ idxInfo = NoIdxInfo
    /\ keyRows = <<>>
    /\ x = <<>>
    /\ cur = [c \in Cursors |-> NoCursor]
    /\ heap = <<>>
    /\ host = [c \in Cursors |-> NoHost]
    /\ errBudget = 0

NextConnect ==
    \/ phase = "init" /\ \E a \in Requests : pivotCreate(a)
    \/ pivotDisconnect

SpecConnect == InitConnect /\ [][NextConnect]_vars


-----------------------------------------------------------------------------
(* The planner specification: a created relation, and pivotBestIndex called
   with what the host may offer. *)

Request(keyCols, nParams, colRows) ==
    [fail |-> "none", keyCols |-> keyCols, nParams |-> nParams, colCount |-> 2,
     colRows |-> colRows]

\* The state after a successful CREATE VIRTUAL TABLE with request a.
ConnectedAs(a) ==
    LET o == ConnectOutcome(a)
    IN /\ o.rc = SQLITE_OK
       /\ phase = "connected"
       /\ request = a
       /\ tab = o.tab
       /\ connRc = o.rc
       /\ pzErr = o.msg
       /\ declared = o.declared
       /\ allocs = o.allocs

PlanRequests ==
    {Request(<<"c">>, 2, <<<<1, "a">>>>),
     Request(<<"c", "e">>, 3, <<<<1, "a">>>>)}

\* Column indexes the host can name: -1 is the rowid.
HostColumns(t) == (-1)..(t.nRow_cols + t.nCol_key - 1)

PlanOps == {"EQ", "ISNULL", "FUNCTION"}

OfferedConstraints(t) ==
    [iColumn : HostColumns(t), op : PlanOps, usable : {1}]
    \cup [iColumn : HostColumns(t), op : {"EQ"}, usable : {0}]

OfferedOrderBy(t) == [iColumn : HostColumns(t), desc : {0, 1}]

\* What one pivotBestIndex call is offered: constraint lists without ordering,
\* every single constraint of every operator, and ordering lists with at most
\* one constraint.
PlanInputs(t) ==
    (SeqsUpTo(OfferedConstraints(t), 0, MaxConstraints) \X {<<>>})
    \cup (SeqsUpTo([iColumn : HostColumns(t), op : ConstraintOps, usable : {1}],
                   1, 1) \X {<<>>})
    \cup (SeqsUpTo(OfferedConstraints(t), 0, 1)
          \X SeqsUpTo(OfferedOrderBy(t), 1, MaxOrderBy))

InitPlan ==
    /\ \E a \in PlanRequests : ConnectedAs(a)
    /\ idxInfo = NoIdxInfo
    /\ keyRows = <<>>
    /\ x = <<>>
    /\ cur = [c \in Cursors |-> NoCursor]
    /\ heap = <<>>
    /\ host = [c \in Cursors |-> NoHost]
    /\ errBudget = 0

\* pivotBestIndex keeps no state between calls: one call per behaviour reaches
\* every outcome.
NextPlan ==
    /\ idxInfo = NoIdxInfo
    /\ \E in \in PlanInputs(tab) : pivotBestIndex(in[1], in[2])

SpecPlan == InitPlan /\ [][NextPlan]_vars

-----------------------------------------------------------------------------
(* The scan specification: a created relation over backing data, planned and
   scanned through cursors. *)

ScanRequests ==
    {Request(<<"c">>, 0, <<<<1, "a">>, <<2, "b">>>>),
     Request(<<"c">>, 2, <<<<1, "a">>, <<2, "b">>>>),
     Request(<<"c", "e">>, 3, <<<<1, "a">>, <<2, "b">>>>),
     Request(<<"c", "e">>, 2, <<<<1, "a">>, <<2, "b">>>>)}

\* Rows the row-key query can yield: n columns of small integers.
RowDomain(n) == {[i \in 1..n |-> IntVal(((k + i) % 2) + 1)] : k \in 0..1}

\* The parameter tuples of the cells: the leading nParams - 1 values of a row,
\* then a column key.
CellParams(a) ==
    {[i \in 1..a.nParams |->
         IF i = a.nParams THEN IntVal(a.colRows[j][1]) ELSE r[i]] :
        r \in RowDomain(Len(a.keyCols)), j \in 1..Len(a.colRows)}

\* The cell table: the cell of row r and column key k holds 10 * k + r, except
\* that one cell is missing and one cell has a second row.
CellTable(a) ==
    [p \in CellParams(a) |->
        LET k == IF Len(p) > 0 THEN p[Len(p)].v ELSE 0
            r == IF Len(p) > 1 THEN p[1].v ELSE 0
        IN IF k = 2 /\ r = 2 THEN <<>>
           ELSE IF k = 1 /\ r = 1 THEN <<IntVal(10 * k + r), IntVal(99)>>
           ELSE <<IntVal(10 * k + r)>>]

ScanConstraints == {<<>>, <<[iColumn |-> 0, op |-> "EQ", usable |-> 1]>>}
ScanOrderBy == {<<>>, <<[iColumn |-> 0, desc |-> 1]>>}
ArgValues == {IntVal(1)}

InitScan ==
    /\ \E a \in ScanRequests :
          /\ ConnectedAs(a)
          /\ keyRows \in SeqsUpTo(RowDomain(Len(a.keyCols)), 0, MaxRows)
          /\ x = CellTable(a)
    /\ idxInfo = NoIdxInfo
    /\ cur = [c \in Cursors |-> NoCursor]
    /\ heap = <<>>
    /\ host = [c \in Cursors |-> NoHost]
    /\ errBudget = MaxErrors

ScanNext(cs) ==
    \/ /\ idxInfo = NoIdxInfo
       /\ \E cons \in ScanConstraints, ord \in ScanOrderBy :
             pivotBestIndex(cons, ord)
    \/ \E c \in cs : pivotOpen(c)
    \/ \E c \in cs, argv \in SeqsUpTo(ArgValues, 0, 1), err \in BOOLEAN :
          pivotFilter(c, argv, err)
    \/ \E c \in cs : pivotEof(c)
    \/ \E c \in cs, err \in BOOLEAN : pivotNext(c, err)
    \/ \E c \in cs, i \in 0..(MaxRowCols + MaxColDefs), err \in BOOLEAN :
          pivotColumn(c, i, err)
    \/ \E c \in cs : pivotRowid(c)
    \/ \E c \in cs : pivotClose(c)
    \/ pivotRename

Next == ScanNext({1})

Spec == InitScan /\ [][Next]_vars

-----------------------------------------------------------------------------
(* Claims about relation creation, checked under SpecConnect *)

Created == phase \in {"connected", "disconnected"}
Attempted == phase # "init"

\* Two column definition rows, at any two positions, with the same key or the
\* same name up to case.
HasDuplicateDef(rows) ==
    \E i, j \in 1..Len(rows) :
        /\ i < j
        /\ \/ rows[i][1] = rows[j][1]
           \/ Lower(rows[i][2]) = Lower(rows[j][2])

\* C2: creation fails, with no relation registered, whenever any two rows of the
\* column definition query have equal keys or case-insensitively equal names.
C2_DuplicateDefsRejected ==
    (Attempted /\ HasDuplicateDef(request.colRows))
        => (phase = "failed" /\ connRc # SQLITE_OK /\ declared = <<>>)

C4_FailureReleasesEverything ==
    phase = "failed" => allocs = {}

\* C10: a created relation declares rowKeyArity + (column definition rows)
\* columns, which is nRow_cols + nCol_key: the row-key names in source order,
\* then one column per definition row in row order; and binding j has the key
\* of definition row j bound in its column-key slot.
C10_SchemaShape ==
    phase = "connected" =>
        /\ Len(declared) = Len(request.keyCols) + Len(request.colRows)
        /\ Len(declared) = tab.nRow_cols + tab.nCol_key
        /\ \A i \in 1..Len(request.keyCols) : declared[i] = request.keyCols[i]
        /\ \A j \in 1..Len(request.colRows) :
              declared[Len(request.keyCols) + j] = request.colRows[j][2]
        /\ Len(tab.col_stmt) = Len(request.colRows)

C10_KeysPreBound ==
    phase = "connected" =>
        \A j \in 1..Len(request.colRows) :
            /\ request.nParams \in DOMAIN tab.col_stmt[j].params
            /\ tab.col_stmt[j].params[request.nParams]
                   = IntVal(request.colRows[j][1])

C10_DeclaredSchemaAndBindings == C10_SchemaShape /\ C10_KeysPreBound

-----------------------------------------------------------------------------
(* Claims about the planner, checked under SpecPlan *)

Called == idxInfo # NoIdxInfo
Planned == Called /\ ~idxInfo.crashed

\* The SQL operator a host constraint operator stands for; "" for the
\* function-style and other kinds that have none.
MappedOperator(op) ==
    CASE op = "EQ" -> "="
      [] op = "NE" -> "<>"
      [] op = "LT" -> "<"
      [] op = "LE" -> "<="
      [] op = "GT" -> ">"
      [] op = "GE" -> ">="
      [] op \in {"IS", "ISNULL"} -> "IS"
      [] op \in {"ISNOT", "ISNOTNULL"} -> "IS NOT"
      [] op \in {"LIKE", "GLOB", "MATCH", "REGEXP"} -> op
      [] OTHER -> ""

Consumed == {i \in 1..Len(idxInfo.aConstraint) :
                idxInfo.aConstraintUsage[i].argvIndex > 0}

\* The `column op ?` clauses of a constraint: one when its column is a column
\* of the row-key query, none when it is not.
ColumnClauses(c) ==
    {"\"" \o request.keyCols[k] \o "\" " \o MappedOperator(c.op) \o " ?" :
        k \in {c.iColumn + 1} \cap (1..Len(request.keyCols))}

\* What C5 says of the constraints whose column index is in cols.
PushdownOn(cols) ==
    /\ \A i \in 1..Len(idxInfo.aConstraint) :
          LET c == idxInfo.aConstraint[i]
              u == idxInfo.aConstraintUsage[i]
              where == WherePieces(tab, idxInfo.idxStr)
          IN /\ (c.usable = 1 /\ c.iColumn \in cols /\ c.iColumn < tab.nRow_cols
                   /\ MappedOperator(c.op) # "")
                    => /\ u.argvIndex \in 1..Len(where)
                       /\ u.omit = 1
                       /\ where[u.argvIndex] \in ColumnClauses(c)
             /\ c.iColumn >= tab.nRow_cols
                    => (u.argvIndex = 0 /\ u.omit = 0)
    /\ Len(WherePieces(tab, idxInfo.idxStr)) = Cardinality(Consumed)
    /\ \A i, j \in Consumed :
          i < j => idxInfo.aConstraintUsage[i].argvIndex
                     < idxInfo.aConstraintUsage[j].argvIndex

\* C5: pivotBestIndex returns, and every usable constraint with a mappable
\* operator on a column of index < nRow_cols is consumed (argvIndex > 0,
\* omit = 1) with its `column op ?` clause in the WHERE conjunction at position
\* argvIndex; every constraint on a pivot column is left unconsumed
\* (argvIndex 0, omit 0), and the conjunction has one clause per consumed
\* constraint, so a pivot column contributes none.
C5_PushdownConsumed ==
    Called => (~idxInfo.crashed /\ PushdownOn((-1)..(tab.nRow_cols - 1)))

\* C5, for the calls that return and the constraints on the columns
\* 0..nRow_cols-1: this much holds.
C5_PushdownConsumedOnKeyColumns ==
    Planned => PushdownOn(0..(tab.nRow_cols - 1))

\* A plan for a row-key constraint and a pivot column constraint together.
C5_Witness ==
    /\ Planned
    /\ Len(idxInfo.aConstraint) = 2
    /\ idxInfo.aConstraint[1].iColumn >= tab.nRow_cols
    /\ idxInfo.aConstraint[1].usable = 1
    /\ idxInfo.aConstraint[2].iColumn = tab.nRow_cols - 1
    /\ idxInfo.aConstraintUsage[2] = [argvIndex |-> 1, omit |-> 1]
    /\ Len(WherePieces(tab, idxInfo.idxStr)) = 1

-----------------------------------------------------------------------------
(* Claims about scans, checked under Spec *)

\* The parameters of the cell query for a row and a column key: consumed by
\* position, the leading ones take the row's values, the last the column key.
CellQueryParams(row, key) ==
    [i \in 1..request.nParams |->
        IF i = request.nParams THEN IntVal(key) ELSE row[i]]

\* The first value of the cell query so bound, or null when it yields no row.
CellValue(row, key) ==
    LET params == CellQueryParams(row, key)
    IN IF (\E i \in 1..Len(params) : params[i] = Null)
          \/ params \notin DOMAIN x \/ x[params] = <<>>
       THEN Null
       ELSE x[params][1]

Occurrences(rows, r) == Cardinality({i \in 1..Len(rows) : rows[i] = r})

SameRows(rows, others) ==
    /\ Len(rows) = Len(others)
    /\ \A i \in 1..Len(rows) : Occurrences(rows, rows[i]) = Occurrences(others, rows[i])

Scanning(c) == host[c].pc \in {"filtered", "row", "eof"}

\* A scan on the plan built from no constraints.
Unfiltered(c) == idxInfo.aConstraint = <<>> /\ Scanning(c)

\* A scan in which no step of the row-key statement has ended in an error.
NoFailedStep(c) == ~host[c].scanErr

\* The last ColumnValue call on the current row was for column i or a later
\* one, and its lookup ran to its end (a row or none).
ColumnRead(c, i) ==
    host[c].pc = "row" /\ host[c].col.i >= i /\ ~host[c].col.stepErr

\* The row the cursor is positioned on, as handed to the host.
CurrentRow(c) == host[c].produced[Len(host[c].produced)]

\* What C1 says of the scan of cursor c.
FullScan(c) ==
    /\ host[c].pc = "eof" =>
          /\ SameRows(host[c].produced, keyRows)
          /\ idxInfo.aOrderBy = <<>> => host[c].produced = keyRows
    /\ ColumnRead(c, tab.nRow_cols) =>
          host[c].col.val
            = CellValue(CurrentRow(c),
                        request.colRows[host[c].col.i - tab.nRow_cols + 1][1])

\* C1: an unfiltered scan that has reached Eof has produced exactly the rows of
\* the row-key query, each once (in the query's order when no ordering was
\* asked for), and on every row of such a scan the value returned for pivot
\* column j, when the lookup runs to its end, is the first value of the cell
\* query bound to the row's values and to the key of column j, or null when
\* the cell query yields no row.
C1_FullScan ==
    \A c \in Cursors : Unfiltered(c) => FullScan(c)

\* C1, for the scans in which no step of the row-key statement ends in an
\* error: this much holds.
C1_FullScanWithoutFailedStep ==
    \A c \in Cursors : (Unfiltered(c) /\ NoFailedStep(c)) => FullScan(c)

\* The second row of an unfiltered scan over a relation whose key columns are
\* all parameters of the cell query, with a pivot column read that has a cell.
C1_Witness ==
    /\ Unfiltered(1) /\ NoFailedStep(1)
    /\ ColumnRead(1, tab.nRow_cols)
    /\ Len(host[1].produced) = 2
    /\ request.nParams = Len(request.keyCols) + 1
    /\ Len(request.keyCols) = 2
    /\ host[1].col.i >= tab.nRow_cols
    /\ host[1].col.val # Null

\* C6: a step of the row-key statement that ends in an error during Filter or
\* Next makes that operation return a failure, and the cursor never stands on
\* a row after it.
C6_StepErrorPropagates ==
    \A c \in Cursors :
        host[c].stepErr =>
            /\ host[c].pc = "filtered" => host[c].ret # SQLITE_OK
            /\ host[c].pc # "row"

\* C7: when the step of the pivot statement ends in an error, ColumnValue
\* reports a failure.
C7_CellErrorPropagates ==
    \A c \in Cursors :
        (host[c].pc = "row" /\ host[c].col.stepErr) => host[c].ret # SQLITE_OK

\* C8: after Close, no tuple array, tuple value or statement allocated for the
\* cursor remains unreleased.
C8_CloseReleasesAll ==
    \A c \in Cursors :
        host[c].pc = "closed" =>
            \A p \in 1..Len(heap) : ~(heap[p].live /\ heap[p].owner = c)

\* The value column i of the relation has on a row.
ValueOn(row, i) ==
    IF i < tab.nRow_cols THEN row[i + 1]
    ELSE CellValue(row, request.colRows[i - tab.nRow_cols + 1][1])

\* What C9 says of the scan of cursor c.
OrderAndResolution(c) ==
    /\ Len(host[c].produced) <= Len(host[c].scanRows)
    /\ host[c].produced = SubSeq(host[c].scanRows, 1, Len(host[c].produced))
    /\ host[c].pc = "eof" => host[c].produced = host[c].scanRows
    /\ ColumnRead(c, 0) =>
          /\ CurrentRow(c) = Tuple(heap, cur[c].pivot_key)
          /\ host[c].col.val = ValueOn(CurrentRow(c), host[c].col.i)

\* C9: the rows a scan has produced so far are the first rows of what the
\* derived query yields, in its order, all of them at Eof; and every
\* ColumnValue call on a row whose lookup runs to its end, after whatever calls
\* came before it, returns the value for the tuple captured for that row.
C9_OrderAndResolution ==
    \A c \in Cursors : Scanning(c) => OrderAndResolution(c)

\* C9, for the scans in which no step of the row-key statement ends in an
\* error: this much holds.
C9_OrderAndResolutionWithoutFailedStep ==
    \A c \in Cursors : (Scanning(c) /\ NoFailedStep(c)) => OrderAndResolution(c)

\* An ordered scan that yields the rows in another order than the row-key
\* query, on its second row, with a pivot column read while the statement of
\* another pivot column still holds the values of the row before.
C9_Witness ==
    /\ ColumnRead(1, tab.nRow_cols)
    /\ NoFailedStep(1)
    /\ Len(host[1].produced) = 2
    /\ host[1].produced # keyRows
    /\ host[1].col.i >= tab.nRow_cols
    /\ host[1].col.val # Null
    /\ tab.nRow_key >= 1
    /\ \E j \in 1..tab.nCol_key :
          /\ j # host[1].col.i - tab.nRow_cols + 1
          /\ tab.col_stmt[j].params[1] \notin {Null, CurrentRow(1)[1]}

-----------------------------------------------------------------------------
(* Claims about the relation definition during planning and scans *)

\* What of a pivot_vtab object is the relation definition: the counts, the
\* names, the full-scan text, the number of bindings, and of each binding the
\* slots after the first nRow_key, the column-key slot among them.
FixedSlots(t, stmt) ==
    [i \in {k \in 1..Len(stmt.params) : k > t.nRow_key} |-> stmt.params[i]]

RelationDefinition(t) ==
    [nRow_key |-> t.nRow_key, nRow_cols |-> t.nRow_cols, nCol_key |-> t.nCol_key,
     key_sql_col_names |-> t.key_sql_col_names,
     key_sql_full_table_scan |-> t.key_sql_full_table_scan,
     bindings |-> [j \in 1..Len(t.col_stmt) |-> FixedSlots(t, t.col_stmt[j])]]

\* C13: while the relation is connected, after any planning or scan operation
\* (bestIndex, open, filter, next, eof, column, rowid, close, rename), the
\* relation definition is as creation set it: ColumnValue has re-bound at most
\* the first nRow_key slots of a binding.
C13_DefinitionUnchanged ==
    phase = "connected" =>
        RelationDefinition(tab) = RelationDefinition(ConnectOutcome(request).tab)

\* A relation with more row columns than key parameters, planned, scanned and
\* closed, whose first binding has been re-bound with a row's value.
C13_Witness ==
    /\ phase = "connected"
    /\ tab.nRow_key = 1 /\ tab.nRow_cols = 2
    /\ idxInfo # NoIdxInfo
    /\ host[1].pc = "closed"
    /\ tab.col_stmt[1].params[1] # Null
    /\ tab.col_stmt[1] # ConnectOutcome(request).tab.col_stmt[1]

-----------------------------------------------------------------------------
(* Claims about the ordering the planner reports, checked under SpecPlan *)

\* C14: pivotBestIndex reports orderByConsumed = 1 only when every requested
\* ordering term is on a row-key column and stands in the ORDER BY clause; with
\* at least one term on a pivot column it reports orderByConsumed = 0. Stated
\* for the calls that offer nothing on the rowid.
C14_OrderConsumedOnlyWhenAllPushed ==
    (Planned /\ ~ReadsOutOfBounds(tab, idxInfo.aConstraint, idxInfo.aOrderBy)) =>
        /\ idxInfo.orderByConsumed = 1 =>
              /\ \A i \in 1..Len(idxInfo.aOrderBy) :
                    idxInfo.aOrderBy[i].iColumn < tab.nRow_cols
              /\ Len(OrderPieces(tab, idxInfo.idxStr)) = Len(idxInfo.aOrderBy)
        /\ (\E i \in 1..Len(idxInfo.aOrderBy) :
               idxInfo.aOrderBy[i].iColumn >= tab.nRow_cols)
              => idxInfo.orderByConsumed = 0


\* The constraints C19 is about: flagged unusable, or usable on a column of the
\* row-key query with an operator that has no SQL counterpart.
LeftToHost(c) ==
    \/ c.usable = 0
    \/ c.usable = 1 /\ InBounds(tab, c.iColumn) /\ MappedOperator(c.op) = ""

NotLeftToHost(c) == ~LeftToHost(c)

\* C19: an unusable constraint, and a usable constraint on a row-key column
\* whose operator is function-style or otherwise unmappable, gets argvIndex 0
\* and omit 0 and adds nothing to the derived query: the text is the one the
\* call builds when these constraints are not offered at all.
C19_UnmappableLeftUnconsumed ==
    Called =>
        LET cons == idxInfo.aConstraint
            rest == SelectSeq(cons, NotLeftToHost)
            ub == IF idxInfo.crashed THEN "fault" ELSE "garbage"
        IN /\ \A i \in 1..Len(cons) :
                 LeftToHost(cons[i]) => idxInfo.aConstraintUsage[i] = NoUsage
           /\ idxInfo.idxStr
                 = BestIndexOutcome(tab, rest, idxInfo.aOrderBy, ub).idxStr

\* A call offered an unusable constraint and a function-style constraint on the
\* first row-key column, and nothing else.
C19_Witness ==
    /\ Planned
    /\ Len(idxInfo.aConstraint) = 2
    /\ idxInfo.aConstraint[1] = [iColumn |-> 0, op |-> "EQ", usable |-> 0]
    /\ idxInfo.aConstraint[2] = [iColumn |-> 0, op |-> "FUNCTION", usable |-> 1]
    /\ idxInfo.aConstraintUsage = <<NoUsage, NoUsage>>
    /\ idxInfo.idxStr = tab.key_sql_full_table_scan


-----------------------------------------------------------------------------
(* Claims about the cursor's states, checked under Spec *)

\* C18: the row id is 1 right after pivotFilter and one more after each
\* pivotNext: once the scan has produced i rows the counter is i, pivotRowid
\* reports i for the i-th row, and a later pivotFilter starts again at 1.
C18_RowidCountsRows ==
    \A c \in Cursors :
        /\ (host[c].pc = "filtered" /\ host[c].produced = <<>>)
              => cur[c].iRowid = 1
        /\ host[c].pc = "filtered" => cur[c].iRowid = Len(host[c].produced) + 1
        /\ host[c].pc = "row" => cur[c].iRowid = Len(host[c].produced)
        /\ host[c].rowid # 0
              => (host[c].pc = "row" /\ host[c].rowid = Len(host[c].produced))

\* The row id of the second row of a cursor's second scan has been read.
C18_Witness ==
    /\ host[1].filters = 2
    /\ host[1].pc = "row"
    /\ Len(host[1].produced) = 2
    /\ host[1].rowid = 2


\* Whether the most recent pivotFilter or pivotNext found a row: its
\* sqlite3_step gave SQLITE_ROW.
FoundRow(c) == cur[c].rc = SQLITE_ROW

\* What pivotEof answered for the cursor's present position: "row" after it
\* returned false, "eof" after it returned true.
EofAnswer(c) ==
    /\ host[c].pc = "row" => FoundRow(c)
    /\ host[c].pc = "eof" => ~FoundRow(c)

\* C16: pivotEof returns true if and only if the most recent pivotFilter or
\* pivotNext found no row, and false when the cursor is on a row.
C16_EofIffExhausted == \A c \in Cursors : EofAnswer(c)

\* C16, for the positions whose step did not fail: this much holds.
C16_EofIffExhaustedWithoutFailedStep ==
    \A c \in Cursors : ~host[c].stepErr => EofAnswer(c)


\* The live heap objects of a kind that cursor c allocated.
LiveOf(c, kinds) ==
    {p \in 1..Len(heap) : heap[p].live /\ heap[p].owner = c /\ heap[p].kind \in kinds}

\* pivotFilter or pivotNext has returned without finding a row.
ReturnedWithoutRow(c) == host[c].pc = "filtered" /\ ~FoundRow(c)

\* C17: when pivotFilter or pivotNext finds no row, at its return the cursor's
\* statement is finalized and released and no tuple is retained: no statement,
\* array or value of the cursor is live.
C17_ExhaustedHoldsNothing ==
    \A c \in Cursors :
        ReturnedWithoutRow(c) =>
            /\ cur[c].stmt = 0
            /\ LiveOf(c, {"stmt", "array", "value"}) = {}

\* The cursor holds no statement once pivotEof has answered true: this much
\* holds.
C17_StatementReleasedByEof ==
    \A c \in Cursors : host[c].pc = "eof" => cur[c].stmt = 0


\* C20: over every sequence of pivotOpen, pivotFilter, rounds of pivotEof,
\* pivotColumn and pivotNext, a final pivotEof (called once or more in the
\* exhausted state) and pivotClose, the tuple array and each tuple value are
\* released at most once and are not read after their release. Stated for the
\* scans none of whose steps failed.
C20_ReleasedOnceNeverReadAfter ==
    \A c \in Cursors :
        NoFailedStep(c) =>
            /\ host[c].ub = {}
            /\ host[c].pc # "crashed"
            /\ \A p \in 1..Len(heap) :
                  (heap[p].owner = c /\ heap[p].kind \in {"array", "value"})
                      => heap[p].frees <= 1


-----------------------------------------------------------------------------
(* The binding specification: a relation with two row-key columns, planned
   with up to MaxConstraints constraints and scanned once with the values the
   host passes for them. *)

BindRequests == {Request(<<"c", "e">>, 3, <<<<1, "a">>>>)}

BindOps == {"EQ", "GT"}

BindConstraints(t) ==
    [iColumn : HostColumns(t), op : BindOps, usable : {1}]
    \cup [iColumn : {0}, op : {"EQ"}, usable : {0}]

BindValues == {IntVal(1), IntVal(2)}

InitBind ==
    /\ \E a \in BindRequests :
          /\ ConnectedAs(a)
          /\ keyRows \in SeqsUpTo(RowDomain(Len(a.keyCols)), 0, MaxRows)
          /\ x = CellTable(a)
    /\ idxInfo = NoIdxInfo
    /\ cur = [c \in Cursors |-> NoCursor]
    /\ heap = <<>>
    /\ host = [c \in Cursors |-> NoHost]
    /\ errBudget = 0

\* A scan whose statement could not be prepared never reaches SQLITE_DONE: the
\* host stops calling pivotNext after MaxRows + 1 rows.
NextBind ==
    \/ /\ idxInfo = NoIdxInfo
       /\ \E cons \in SeqsUpTo(BindConstraints(tab), 0, MaxConstraints) :
             pivotBestIndex(cons, <<>>)
    \/ pivotOpen(1)
    \/ /\ host[1].filters = 0
       /\ \E argv \in SeqsUpTo(BindValues, 0, MaxConstraints) :
             pivotFilter(1, argv, FALSE)
    \/ pivotEof(1)
    \/ /\ cur[1].iRowid <= MaxRows
       /\ pivotNext(1, FALSE)
    \/ pivotClose(1)

SpecBind == InitBind /\ [][NextBind]_vars

-----------------------------------------------------------------------------
(* Claims about the bound values, checked under SpecBind *)

\* The consumed constraints in the order of the constraint array.
ConsumedInOrder ==
    SelectSeq([i \in 1..Len(idxInfo.aConstraint) |-> i],
              LAMBDA i : idxInfo.aConstraintUsage[i].argvIndex > 0)

\* The argvIndex values are 1..k in constraint order and the WHERE conjunction
\* is the k clauses of the consumed constraints in that order.
SlotsFollowConstraints ==
    LET k == Len(ConsumedInOrder)
        where == WherePieces(tab, idxInfo.idxStr)
    IN /\ \A j \in 1..k :
             idxInfo.aConstraintUsage[ConsumedInOrder[j]].argvIndex = j
       /\ Len(where) = k
       /\ \A j \in 1..k :
             where[j] \in ColumnClauses(idxInfo.aConstraint[ConsumedInOrder[j]])

\* Whether a row satisfies every consumed constraint for the value the host
\* passed for it: the argument at the constraint's argvIndex.
SatisfiesConsumed(argv, row) ==
    \A i \in Consumed :
        LET c == idxInfo.aConstraint[i]
        IN /\ c.iColumn + 1 \in 1..Len(row)
           /\ SqlHolds(MappedOperator(c.op), row[c.iColumn + 1],
                       argv[idxInfo.aConstraintUsage[i].argvIndex])

\* The rows of the backing data that satisfy the consumed constraints.
RowsSatisfying(argv) ==
    SelectSeq(keyRows, LAMBDA row : SatisfiesConsumed(argv, row))

\* What C15 says of a returned pivotBestIndex call and of a scan under its plan.
ValuesReachClauses ==
    /\ SlotsFollowConstraints
    /\ \A c \in Cursors :
          Scanning(c) => host[c].scanRows = RowsSatisfying(host[c].argv)

\* C15: the consumed constraints get argvIndex 1, 2, ..., k in constraint
\* order, the derived query has their k `column op ?` clauses in that order,
\* and pivotFilter binds argument i to placeholder i: the statement yields the
\* rows that satisfy each consumed constraint for the value passed for it.
C15_ValuesReachClauses == Planned => ValuesReachClauses

\* C15, for the plans that read no column name out of bounds: this much holds.
C15_ValuesReachClausesOnKeyColumns ==
    (Planned /\ ~ReadsOutOfBounds(tab, idxInfo.aConstraint, idxInfo.aOrderBy))
        => ValuesReachClauses


-----------------------------------------------------------------------------
(* The rescan specification: cursor 1 scans the relation and stops somewhere;
   the backing cell data may then be changed once; cursor 2 is opened and
   scans under the same plan. *)

RescanRequests == {Request(<<"c">>, 2, <<<<1, "a">>, <<2, "b">>>>)}

\* What an UPDATE or a DELETE on the cell table leaves in a cell.
NewCells == {<<>>, <<IntVal(77)>>}

\* The backing cell data changed from outside: the rows of one cell that has
\* rows are replaced or deleted. One change per behaviour, after the first scan
\* and before the second cursor is opened.
MutateCell(p, rows) ==
    /\ phase = "connected" /\ Running
    /\ host[1].pc \in {"row", "eof"} /\ host[2].pc = "unopened"
    /\ x = CellTable(request)
    /\ p \in DOMAIN x /\ x[p] # <<>> /\ rows # x[p]
    /\ x' = [x EXCEPT ![p] = rows]
    /\ UNCHANGED <<connVars, idxInfo, keyRows, cur, heap, host, errBudget>>

InitRescan ==
    /\ \E a \in RescanRequests :
          /\ ConnectedAs(a)
          /\ keyRows \in SeqsUpTo(RowDomain(Len(a.keyCols)), 1, MaxRows)
          /\ x = CellTable(a)
    /\ idxInfo = NoIdxInfo
    /\ cur = [c \in Cursors |-> NoCursor]
    /\ heap = <<>>
    /\ host = [c \in Cursors |-> NoHost]
    /\ errBudget = MaxErrors

\* The calls of cursor c in one scan.
ScanOnce(c) ==
    \/ /\ host[c].filters = 0
       /\ \E err \in BOOLEAN : pivotFilter(c, <<>>, err)
    \/ /\ host[c].pc = "filtered"
       /\ pivotEof(c)
    \/ \E err \in BOOLEAN : pivotNext(c, err)
    \/ \E i \in 0..(MaxRowCols + MaxColDefs), err \in BOOLEAN :
          pivotColumn(c, i, err)

NextRescan ==
    \/ /\ idxInfo = NoIdxInfo
       /\ pivotBestIndex(<<>>, <<>>)
    \/ pivotOpen(1)
    \/ /\ host[2].pc = "unopened"
       /\ ScanOnce(1)
    \/ \E p \in CellParams(request), rows \in NewCells : MutateCell(p, rows)
    \/ /\ host[1].pc \in {"row", "eof"}
       /\ pivotOpen(2)
    \/ ScanOnce(2)

SpecRescan == InitRescan /\ [][NextRescan]_vars


-----------------------------------------------------------------------------
(* Claims about a second scan, checked under SpecRescan *)

Unchanged == x = CellTable(request)

\* The rows the two scans have handed to the host agree as far as both have
\* gone, and a scan that has reached its end has no fewer rows than the other.
RowsAgree ==
    LET first == host[1].produced
        second == host[2].produced
    IN /\ \A n \in 1..Len(first) : n <= Len(second) => first[n] = second[n]
       /\ host[1].pc = "eof" => Len(second) <= Len(first)
       /\ host[2].pc = "eof" => Len(first) <= Len(second)

\* Both cursors stand on their n-th row and were last asked for the same column.
SameCoordinates ==
    /\ host[1].pc = "row" /\ host[2].pc = "row"
    /\ Len(host[1].produced) = Len(host[2].produced)
    /\ host[1].col.i >= 0
    /\ host[1].col.i = host[2].col.i

ScansAgree ==
    /\ RowsAgree
    /\ SameCoordinates => host[1].col.val = host[2].col.val

\* No step of a row-key statement and no cell lookup at the present position
\* has ended in an error, on either cursor.
NoFailure ==
    \A c \in Cursors : NoFailedStep(c) /\ ~host[c].col.stepErr

\* C12: with the backing data unchanged, a second scan under the same plan
\* hands the host the same rows in the same order and the same value in every
\* column as the first scan did, whatever the first scan left bound in the
\* shared pivot statements.
C12_RescanIdentical == Unchanged => ScansAgree

\* C12, for the scans in which nothing ends in an error: this much holds.
C12_RescanIdenticalWithoutFailure == (Unchanged /\ NoFailure) => ScansAgree


\* The cell whose rows were changed, and the value a lookup of it gives now.
ChangedCell == CHOOSE p \in DOMAIN x : x[p] # CellTable(request)[p]

ChangedValue == IF x[ChangedCell] = <<>> THEN Null ELSE x[ChangedCell][1]

\* The parameters of the cell lookup behind the pivot column cursor c last read.
LookupOf(c) ==
    CellQueryParams(CurrentRow(c),
                    request.colRows[host[c].col.i - tab.nRow_cols + 1][1])

\* What C11 says of the scan of cursor 2, opened after the change, against the
\* scan of cursor 1 before it.
FreshScan ==
    /\ RowsAgree
    /\ (host[2].pc = "row" /\ host[2].col.i >= tab.nRow_cols) =>
          IF LookupOf(2) = ChangedCell
          THEN host[2].col.val = ChangedValue
          ELSE SameCoordinates => host[2].col.val = host[1].col.val
    /\ (SameCoordinates /\ host[2].col.i < tab.nRow_cols) =>
          host[2].col.val = host[1].col.val

\* C11: after a cell of the backing data is updated or deleted, a scan opened
\* afterwards returns the new value, or null for a deleted cell, where the
\* lookup is of the changed cell, and at every other row and column the value
\* the scan before the change returned there. Stated for the scans none of
\* whose row-key steps failed.
C11_FreshAfterChange ==
    (~Unchanged /\ \A c \in Cursors : NoFailedStep(c)) => FreshScan

\* C11, for the scans in which nothing ends in an error: this much holds.
C11_FreshAfterChangeWithoutFailure == (~Unchanged /\ NoFailure) => FreshScan


-----------------------------------------------------------------------------
(* Claims about the reads of the column-name array, checked under SpecPlan *)

\* The indexes at which a pivotBestIndex call reads key_sql_col_names: one for
\* each constraint that reaches line 690 and each ordering term that reaches
\* line 705.
NameReads ==
    {idxInfo.aConstraint[i].iColumn :
        i \in {k \in 1..Len(idxInfo.aConstraint) :
                  /\ idxInfo.aConstraint[k].usable # 0
                  /\ Eligible(idxInfo.aConstraint[k].iColumn, tab.nRow_cols)
                  /\ OpText(idxInfo.aConstraint[k].op) # ""}}
    \cup {idxInfo.aOrderBy[i].iColumn :
             i \in {k \in 1..Len(idxInfo.aOrderBy) :
                       Eligible(idxInfo.aOrderBy[k].iColumn, tab.nRow_cols)}}

\* C21: every read of key_sql_col_names in pivotBestIndex is at an index in
\* 0 .. nRow_cols - 1, whatever constraints and ordering terms the host
\* offers, a term on the rowid (column -1) included, and the call returns.
C21_NameReadsInBounds ==
    Called => (NameReads \subseteq 0..(tab.nRow_cols - 1) /\ ~idxInfo.crashed)

\* The host offers a constraint or an ordering term on the rowid.
OffersRowid ==
    \/ \E i \in 1..Len(idxInfo.aConstraint) : idxInfo.aConstraint[i].iColumn = -1
    \/ \E i \in 1..Len(idxInfo.aOrderBy) : idxInfo.aOrderBy[i].iColumn = -1

\* C21, for the calls that are offered nothing on the rowid: this much holds.
C21_NameReadsInBoundsWithoutRowid ==
    (Called /\ ~OffersRowid)
        => (NameReads \subseteq 0..(tab.nRow_cols - 1) /\ ~idxInfo.crashed)


-----------------------------------------------------------------------------
(* Claims about a rewind, checked under Spec *)

\* The statement and the tuple array cursor c holds, as far as they are live.
HeldBy(c) ==
    {p \in {cur[c].stmt, cur[c].pivot_key} \ {0} : heap[p].live}

\* The step is a pivotFilter call on a cursor that was filtered before.
Rewind(c) ==
    /\ host[c].filters >= 1
    /\ host'[c].filters = host[c].filters + 1

\* C23: a pivotFilter call on a cursor that was filtered before releases the
\* statement and the tuple array the cursor holds from the earlier scan: none
\* of them is still allocated after the call. Stated for the rewinds of scans
\* none of whose steps failed.
C23_RewindReleasesHeld ==
    [][\A c \in Cursors :
          (Rewind(c) /\ NoFailedStep(c)) =>
              \A p \in HeldBy(c) : p <= Len(heap') => ~heap'[p].live]_vars

\* Once pivotEof has answered true the cursor holds no live statement and no
\* live array, so a rewind after exhaustion has nothing to release: this much
\* holds.
C23_NothingHeldAfterExhaustion ==
    \A c \in Cursors : host[c].pc = "eof" => HeldBy(c) = {}


-----------------------------------------------------------------------------
(* Claims about the host loop `Filter; while not Eof: Next`, checked under
   SpecBind *)

\* What the control flow of pivotNext and pivotEof depends on: the statement,
\* how far it has been stepped, and the result of the last step. A pivotNext
\* call that leaves this as it was leaves the loop where it was.
LoopState(c) ==
    <<cur[c].stmt, cur[c].rc, IF cur[c].stmt = 0 THEN 0 ELSE heap[cur[c].stmt].pos>>

\* The step is a pivotNext call on cursor c.
NextCall(c) == cur'[c].iRowid = cur[c].iRowid + 1

\* pivotNext calls made so far in the scan of cursor c.
NextCalls(c) == cur[c].iRowid - 1

\* Without a failed step the loop over a statement of n rows is within its n
\* pivotNext calls and pivotEof answers true after exactly n of them.
ExactlyNCalls(c) ==
    (Scanning(c) /\ NoFailedStep(c)) =>
        /\ NextCalls(c) <= Len(host[c].scanRows)
        /\ FoundRow(c) => NextCalls(c) < Len(host[c].scanRows)
        /\ host[c].pc = "eof" => NextCalls(c) = Len(host[c].scanRows)

\* C24: the loop `pivotFilter; while not pivotEof: pivotNext` over a derived
\* query of n rows ends after exactly n pivotNext calls, and it ends as well
\* when a step of the statement ends in an error: every pivotNext call moves
\* the loop on, none leaves it in the state it was in.
C24_LoopTerminates ==
    /\ [](\A c \in Cursors : ExactlyNCalls(c))
    /\ [][\A c \in Cursors : NextCall(c) => LoopState(c)' # LoopState(c)]_vars

\* C24, for the scans none of whose steps fails: this much holds.
C24_LoopTerminatesWithoutFailedStep ==
    /\ [](\A c \in Cursors : ExactlyNCalls(c))
    /\ [][\A c \in Cursors :
            (NextCall(c) /\ ~host'[c].scanErr) => LoopState(c)' # LoopState(c)]_vars


-----------------------------------------------------------------------------
(* The pair specification: two cursors on one relation, their calls
   interleaved call by call, as in a query that joins the relation with
   itself. *)

PairRequests == {Request(<<"c">>, 2, <<<<1, "a">>>>)}

InitPair ==
    /\ \E a \in PairRequests :
          /\ ConnectedAs(a)
          /\ keyRows \in SeqsUpTo(RowDomain(Len(a.keyCols)), 1, MaxRows)
          /\ x = CellTable(a)
    /\ idxInfo = NoIdxInfo
    /\ cur = [c \in Cursors |-> NoCursor]
    /\ heap = <<>>
    /\ host = [c \in Cursors |-> NoHost]
    /\ errBudget = MaxErrors

\* The calls on cursor c: one scan, read in any order, then closed.
PairCalls(c) ==
    \/ pivotOpen(c)
    \/ /\ host[c].filters = 0
       /\ \E err \in BOOLEAN : pivotFilter(c, <<>>, err)
    \/ pivotEof(c)
    \/ \E err \in BOOLEAN : pivotNext(c, err)
    \/ \E i \in 0..(MaxRowCols + MaxColDefs), err \in BOOLEAN :
          pivotColumn(c, i, err)
    \/ pivotClose(c)

NextPair ==
    \/ /\ idxInfo = NoIdxInfo
       /\ pivotBestIndex(<<>>, <<>>)
    \/ \E c \in Cursors : PairCalls(c)

SpecPair == InitPair /\ [][NextPair]_vars


-----------------------------------------------------------------------------
(* Claims about two cursors, checked under SpecPair *)

Other(c) == CHOOSE d \in Cursors : d # c

IsOpen(c) == host[c].pc \in {"open", "filtered", "row", "eof"}

\* The tuple of cursor c as the heap holds it; none when it has no live array.
HeldTuple(c) ==
    IF cur[c].pivot_key # 0 /\ heap[cur[c].pivot_key].live
    THEN Tuple(heap, cur[c].pivot_key)
    ELSE <<>>

\* The last ColumnValue call of cursor c returned the cell of its own row.
OwnCell(c) ==
    (host[c].pc = "row" /\ host[c].col.i >= tab.nRow_cols) =>
        host[c].col.val = CellValue(CurrentRow(c), LookupOf(c)[request.nParams].v)

\* No pivot statement is left in the middle of a step.
AllReset == \A j \in 1..Len(tab.col_stmt) : ~tab.col_stmt[j].busy

\* The step is a call on cursor c.
CallOn(c) == host'[c] # host[c]

\* The call on cursor c leaves the other cursor as it was and is itself free
\* of undefined behaviour, of which the other cursor's memory is not safe.
LeavesOther(c) ==
    LET d == Other(c)
    IN /\ cur'[d] = cur[d]
       /\ host'[d] = host[d]
       /\ HeldTuple(d)' = HeldTuple(d)
       /\ host'[c].ub = host[c].ub
       /\ host'[c].pc # "crashed"

\* C22: with two cursors open on the relation and their calls interleaved call
\* by call, every ColumnValue call returns the cell of the calling cursor's own
\* row, no pivot statement is in the middle of a step between calls, and a
\* call on one cursor leaves the other cursor's position, tuple and row id as
\* they were. Stated for the scans in which no step and no lookup fails.
C22_CursorsIndependent ==
    /\ []((NoFailure /\ \A c \in Cursors : IsOpen(c)) =>
             (AllReset /\ \A c \in Cursors : OwnCell(c)))
    /\ [][\A c \in Cursors :
            (CallOn(c) /\ IsOpen(c) /\ IsOpen(Other(c)) /\ NoFailure /\ NoFailure')
                => LeavesOther(c)]_vars

\* C22, for the calls other than a pivotEof or a pivotClose that finds the
\* tuple array released: this much holds.
C22_CursorsIndependentWhileKeyValid ==
    /\ []((NoFailure /\ \A c \in Cursors : IsOpen(c)) =>
             (AllReset /\ \A c \in Cursors : OwnCell(c)))
    /\ [][\A c \in Cursors :
            (CallOn(c) /\ IsOpen(c) /\ IsOpen(Other(c)) /\ NoFailure /\ NoFailure'
               /\ ~DanglingKey(c))
                => LeavesOther(c)]_vars

=============================================================================
